---- MODULE Spec2Model ----
(***************************************************************************)
(* A model of the tikatape clients: the Local Backend (local.rs), which    *)
(* stages the bundled engine in a scratch directory and spawns it once per *)
(* extraction call, and the Remote Backend (remote.rs), which PUTs the     *)
(* input's bytes to a Tika server.                                         *)
(*                                                                         *)
(* A Rust String is a sequence of atoms (short TLA+ strings); a            *)
(* serde_json::Value is a record tagged by "type"; a HashMap is a function *)
(* whose domain is a set of Strings; a Result is a record tagged by        *)
(* "kind": Ok, Err (with the error's kind in "err") or Panic (the call     *)
(* unwound instead of returning).                                          *)
(***************************************************************************)
EXTENDS Naturals, Sequences, FiniteSets, TLC

VARIABLES
    env,        \* process environment: JAVA_HOME and the temp root
    life,       \* per Local Backend slot: none / failed / live / dropped
    client,     \* per slot: the Client struct (input, ocr, jar_path)
    fs,         \* per slot: the scratch directory on disk
    called,     \* per slot: whether an extraction call was made on the Client
    l_call,     \* the most recent Local Backend call and what it did
    url,        \* RemoteClient.url
    r_input,    \* RemoteClient.input
    last_output,\* RemoteClient.last_output
    r_call      \* the most recent Remote Backend call and what it did

vars == <<env, life, client, fs, called, l_call, url, r_input, last_output, r_call>>
localVars == <<env, life, client, fs, called, l_call>>
remoteVars == <<url, r_input, last_output, r_call>>

(***************************************************************************)
(* Bounds                                                                  *)
(***************************************************************************)
\* longest prefix of a configuration template a failed write may leave
MaxPartial == 1

(***************************************************************************)
(* Results                                                                 *)
(***************************************************************************)
Ok(v) == [kind |-> "Ok", val |-> v]
Err(e) == [kind |-> "Err", err |-> e]
Panic(m) == [kind |-> "Panic", msg |-> m]
None == [some |-> FALSE]
Some(v) == [some |-> TRUE, val |-> v]

(***************************************************************************)
(* serde_json: Value, and from_str into HashMap<String, Value>             *)
(***************************************************************************)
VString(s) == [type |-> "String", s |-> s]
VNumber(n) == [type |-> "Number", n |-> n]
VBool(b) == [type |-> "Bool", b |-> b]
VNull == [type |-> "Null"]
VArray(items) == [type |-> "Array", items |-> items]
VObject(m) == [type |-> "Object", map |-> m]

Quote == "\""
Whitespace == {" ", "\n"}
Digits == {"1", "2"}
\* the byte that is not valid UTF-8
BadByte == "0xFF"

EmptyMap == [k \in {} |-> VNull]
Insert(m, k, v) == [x \in DOMAIN m \cup {k} |-> IF x = k THEN v ELSE m[x]]
Retain(m, keep) == [x \in DOMAIN m \cap keep |-> m[x]]

PFail == [ok |-> FALSE]
POk(v, next) == [ok |-> TRUE, val |-> v, next |-> next]

RECURSIVE SkipWs(_, _)
SkipWs(s, i) ==
    IF i <= Len(s) /\ s[i] \in Whitespace THEN SkipWs(s, i + 1) ELSE i

\* the closing quote of the string literal whose content starts at i (0: none)
RECURSIVE StringEnd(_, _)
StringEnd(s, i) ==
    IF i > Len(s) THEN 0
    ELSE IF s[i] = Quote THEN i
    ELSE IF s[i] = "\n" THEN 0
    ELSE StringEnd(s, i + 1)

StringLiteral(s, i, e) ==
    IF e = 0 THEN PFail ELSE POk(SubSeq(s, i + 1, e - 1), e + 1)

ParseString(s, i) ==
    IF i > Len(s) \/ s[i] # Quote THEN PFail
    ELSE StringLiteral(s, i, StringEnd(s, i + 1))

RECURSIVE NumberEnd(_, _)
NumberEnd(s, i) ==
    IF i <= Len(s) /\ s[i] \in Digits THEN NumberEnd(s, i + 1) ELSE i

RECURSIVE ParseValue(_, _)
RECURSIVE ParseElements(_, _, _)
RECURSIVE ParseMembers(_, _, _)

\* after an array element: "]" closes the array, "," announces another
ElementSep(s, j, acc) ==
    IF j > Len(s) THEN PFail
    ELSE IF s[j] = "]" THEN POk(VArray(acc), j + 1)
    ELSE IF s[j] = "," THEN ParseElements(s, j + 1, acc)
    ELSE PFail

AfterElement(s, v, acc) ==
    IF ~v.ok THEN PFail ELSE ElementSep(s, SkipWs(s, v.next), Append(acc, v.val))

\* the elements of an array after "[" or after a ","
ParseElements(s, i, acc) == AfterElement(s, ParseValue(s, SkipWs(s, i)), acc)

\* after an object member: "}" closes the object, "," announces another
MemberSep(s, j, acc) ==
    IF j > Len(s) THEN PFail
    ELSE IF s[j] = "}" THEN POk(acc, j + 1)
    ELSE IF s[j] = "," THEN ParseMembers(s, j + 1, acc)
    ELSE PFail

\* a repeated key keeps the value read last, as HashMap::insert does
AfterMember(s, key, v, acc) ==
    IF ~v.ok THEN PFail ELSE MemberSep(s, SkipWs(s, v.next), Insert(acc, key, v.val))

AfterColon(s, key, c, acc) ==
    IF c > Len(s) \/ s[c] # ":" THEN PFail
    ELSE AfterMember(s, key, ParseValue(s, SkipWs(s, c + 1)), acc)

AfterKey(s, k, acc) ==
    IF ~k.ok THEN PFail ELSE AfterColon(s, k.val, SkipWs(s, k.next), acc)

\* the members of an object after "{" or after a ","
ParseMembers(s, i, acc) == AfterKey(s, ParseString(s, SkipWs(s, i)), acc)

ObjectBody(s, j) ==
    IF j <= Len(s) /\ s[j] = "}" THEN POk(EmptyMap, j + 1)
    ELSE ParseMembers(s, j, EmptyMap)

ParseObject(s, i) ==
    IF i > Len(s) \/ s[i] # "{" THEN PFail ELSE ObjectBody(s, SkipWs(s, i + 1))

ArrayBody(s, j) ==
    IF j <= Len(s) /\ s[j] = "]" THEN POk(VArray(<<>>), j + 1)
    ELSE ParseElements(s, j, <<>>)

StringValue(r) == IF r.ok THEN POk(VString(r.val), r.next) ELSE PFail
ObjectValue(r) == IF r.ok THEN POk(VObject(r.val), r.next) ELSE PFail
NumberValue(s, i, e) == POk(VNumber(SubSeq(s, i, e - 1)), e)

ParseValue(s, i) ==
    IF i > Len(s) THEN PFail
    ELSE IF s[i] = Quote THEN StringValue(ParseString(s, i))
    ELSE IF s[i] \in Digits THEN NumberValue(s, i, NumberEnd(s, i))
    ELSE IF s[i] = "true" THEN POk(VBool(TRUE), i + 1)
    ELSE IF s[i] = "false" THEN POk(VBool(FALSE), i + 1)
    ELSE IF s[i] = "null" THEN POk(VNull, i + 1)
    ELSE IF s[i] = "[" THEN ArrayBody(s, SkipWs(s, i + 1))
    ELSE IF s[i] = "{" THEN ObjectValue(ParseObject(s, i))
    ELSE PFail

\* serde_json::from_str::<HashMap<String, Value>>: one object, then only
\* whitespace up to the end of the input
WholeInput(s, r) ==
    IF r.ok /\ SkipWs(s, r.next) > Len(s) THEN Ok(r.val) ELSE Err("Json")

from_str(s) == WholeInput(s, ParseObject(s, SkipWs(s, 1)))

\* std::str::from_utf8
from_utf8(bytes) ==
    IF \E i \in 1..Len(bytes) : bytes[i] = BadByte THEN Err("Utf8") ELSE Ok(bytes)

\* HashMap::get(key).and_then(Value::as_str)
get_str(m, key) ==
    IF key \in DOMAIN m /\ m[key].type = "String" THEN Some(m[key].s) ELSE None

(***************************************************************************)
(* lib.rs: Format and Input; reqwest::Url                                  *)
(***************************************************************************)
Format == {"Html", "Text", "Mime", "Metadata"}

FilePath(p) == [tag |-> "FilePath", path |-> p]
UrlInput(u) == [tag |-> "Url", url |-> u]

\* A Url: what precedes the path, the path's segments (the last one is the
\* part after the final "/"), and whether the URL cannot be a base
\* (mailto:, data:, ...: then "path" holds the opaque rest as one segment).
MkUrl(origin, path, cab) == [origin |-> origin, path |-> path, cab |-> cab]

RECURSIVE SlashJoin(_)
SlashJoin(segs) ==
    IF Len(segs) = 0 THEN <<>>
    ELSE <<"/", Head(segs)>> \o SlashJoin(Tail(segs))

\* Url::as_str
as_str(u) ==
    IF u.cab THEN <<u.origin>> \o u.path ELSE <<u.origin>> \o SlashJoin(u.path)

\* the segments of a relative reference such as tika/html
RECURSIVE SplitSlash(_, _)
SplitSlash(s, cur) ==
    IF Len(s) = 0 THEN <<cur>>
    ELSE IF Head(s) = "/" THEN <<cur>> \o SplitSlash(Tail(s), "")
    ELSE SplitSlash(Tail(s), Head(s))

\* Url::join with a relative path: fails on a cannot-be-a-base URL, else
\* replaces the base path's last segment by the reference
UrlJoin(u, rel) ==
    IF u.cab THEN Err("UrlParse")
    ELSE Ok(MkUrl(u.origin,
                  SubSeq(u.path, 1, Len(u.path) - 1) \o SplitSlash(rel, ""),
                  FALSE))

(***************************************************************************)
(* local.rs                                                                *)
(***************************************************************************)
TIKA_NAME == <<"tika-app-2.4.0.jar">>
TIKA_JAR == <<"jar-bytes">>
TIKA_OCR_CONFIG == <<"<properties>", "<ocr/>", "</properties>">>
TIKA_NO_OCR_CONFIG == <<"<properties>", "<skip-ocr/>", "</properties>">>
\* variant: Client::config joining the artifact's name instead of its own
CONFIG_NAME_is_jar == TIKA_NAME

\* the file name Client::config joins to the scratch directory
CONFIG_NAME == <<"tika-config.xml">>

NoFiles == [n \in {} |-> <<>>]
NoDir == [exists |-> FALSE, files |-> NoFiles, removed |-> 0, jar_writes |-> 0]
WriteFile(d, name, bytes) ==
    [d EXCEPT !.files =
        [n \in DOMAIN d.files \cup {name} |-> IF n = name THEN bytes ELSE d.files[n]]]
\* TempDir's Drop: the directory and all it holds are removed
RemoveDir(d) ==
    [d EXCEPT !.exists = FALSE, !.files = NoFiles, !.removed = d.removed + 1]

Event(ev, ok, arg) == [ev |-> ev, ok |-> ok, arg |-> arg]

\* variant: jar_path keeping the directory when File::create fails
jar_path_leak(d, root, id, o) ==
    IF o.failAt = "mkdir" THEN [res |-> Err("Io"), fs |-> d]
    ELSE LET made == [d EXCEPT !.exists = TRUE] IN
         IF o.failAt = "create" THEN [res |-> Err("Io"), fs |-> made]
         ELSE IF o.failAt = "write"
         THEN [res |-> Panic("unwrap"),
               fs |-> RemoveDir(WriteFile(made, TIKA_NAME, <<>>))]
         ELSE [res |-> Ok([path |-> root \o <<"/", "tika_jar.", id>>]),
               fs |-> [WriteFile(made, TIKA_NAME, TIKA_JAR)
                         EXCEPT !.jar_writes = d.jar_writes + 1]]

\* jar_path (tmp_dir leaves scope on every path but the last, which moves it
\* to the caller); o.failAt says which step the filesystem refuses
jar_path(d, root, id, o) ==
    IF o.failAt = "mkdir" THEN [res |-> Err("Io"), fs |-> d]
    ELSE LET made == [d EXCEPT !.exists = TRUE] IN
         IF o.failAt = "create" THEN [res |-> Err("Io"), fs |-> RemoveDir(made)]
         ELSE IF o.failAt = "write"
         THEN [res |-> Panic("unwrap"),
               fs |-> RemoveDir(WriteFile(made, TIKA_NAME, <<>>))]
         ELSE [res |-> Ok([path |-> root \o <<"/", "tika_jar.", id>>]),
               fs |-> [WriteFile(made, TIKA_NAME, TIKA_JAR)
                         EXCEPT !.jar_writes = d.jar_writes + 1]]

\* Client::try_new
Built(input, ocr, j) ==
    IF j.res.kind = "Ok"
    THEN [res |-> Ok([input |-> input, ocr |-> ocr, jar_path |-> Some(j.res.val)]),
          fs |-> j.fs]
    ELSE j

try_new(input, ocr, d, root, id, o) == Built(input, ocr, jar_path(d, root, id, o))

\* Client::data_source
data_source(self) ==
    IF self.input.tag = "FilePath"
    THEN (IF from_utf8(self.input.path).kind = "Ok"
          THEN Ok(self.input.path) ELSE Err("InvalidFilePath"))
    ELSE Ok(as_str(self.input.url))

\* Client::tmp_jar_cmd
Utf8Path(p) == IF from_utf8(p).kind = "Ok" THEN Some(p) ELSE None

tmp_jar_cmd(self) ==
    IF ~self.jar_path.some THEN None
    ELSE Utf8Path(self.jar_path.val.path \o <<"/">> \o TIKA_NAME)

ConfigFor(ocr) == IF ocr THEN TIKA_OCR_CONFIG ELSE TIKA_NO_OCR_CONFIG

\* Client::config: File::create truncates, write_all fills; a refused write
\* leaves the first o.k chunks behind and unwinds (unwrap)
config(self, d, o) ==
    IF ~self.jar_path.some
    THEN [res |-> Err("MissingTmpFolder"), fs |-> d, log |-> <<>>]
    ELSE IF o.failAt = "create"
    THEN [res |-> Err("Io"), fs |-> d,
          log |-> <<Event("create_config", FALSE, <<>>)>>]
    ELSE IF o.failAt = "write"
    THEN [res |-> Panic("unwrap"),
          fs |-> WriteFile(d, CONFIG_NAME, SubSeq(ConfigFor(self.ocr), 1, o.k)),
          log |-> <<Event("create_config", TRUE, <<>>),
                    Event("write_config", FALSE, <<>>)>>]
    ELSE [res |-> Ok(self.jar_path.val.path \o <<"/">> \o CONFIG_NAME),
          fs |-> WriteFile(d, CONFIG_NAME, ConfigFor(self.ocr)),
          log |-> <<Event("create_config", TRUE, <<>>),
                    Event("write_config", TRUE, <<>>)>>]

\* text_result
StrOrMissing(s) == IF s.some THEN Ok(s.val) ELSE Err("MissingContent")

text_result(res) == StrOrMissing(get_str(res, <<"result">>))

\* s.retain(|k, _| k == "Content-Type") on a parsed object
RetainContentType(s) ==
    IF s.kind = "Ok" THEN Ok(Retain(s.val, {<<"Content-Type">>})) ELSE s

\* variant: process_output without the retain of the Mime arm
process_output_no_retain(output, format) ==
    IF format \in {"Html", "Text"}
    THEN Ok(Insert(EmptyMap, <<"result">>, VString(output)))
    ELSE from_str(output)

\* process_output
process_output(output, format) ==
    IF format \in {"Html", "Text"}
    THEN Ok(Insert(EmptyMap, <<"result">>, VString(output)))
    ELSE IF format = "Mime" THEN RetainContentType(from_str(output))
    ELSE from_str(output)

\* format_arg
format_arg(format) ==
    IF format = "Html" THEN <<"-h">>
    ELSE IF format = "Text" THEN <<"-t">>
    ELSE <<"-j">>

\* java_bin
java_bin(java_home) ==
    IF java_home.some THEN java_home.val \o <<"/bin/java">> ELSE <<"java">>

\* Client::process, one operator per step; each takes what the steps before
\* it produced. The result record: res, what process returns (or how it
\* unwinds); fs, the scratch directory afterwards; log, the filesystem and
\* subprocess steps taken, in order; child, the subprocess's exit status
\* and standard output once it has been waited for.
Stopped(res, c) == [res |-> res, fs |-> c.fs, log |-> c.log, child |-> None]

\* l.115: from_utf8(&result.stdout)?, then process_output
Waited(format, c, argv, o, text) ==
    [res |-> IF text.kind = "Ok" THEN process_output(text.val, format) ELSE text,
     fs |-> c.fs,
     log |-> c.log \o <<Event("spawn", TRUE, argv), Event("wait", TRUE, <<>>)>>,
     child |-> Some([exit |-> o.exit, stdout |-> o.stdout])]

\* l.110-113: spawn().expect(..), wait_with_output()?
Spawned(format, c, argv, o) ==
    IF o.failAt = "spawn"
    THEN [res |-> Panic("Error spawning Tika server process"), fs |-> c.fs,
          log |-> Append(c.log, Event("spawn", FALSE, argv)), child |-> None]
    ELSE IF o.failAt = "wait"
    THEN [res |-> Err("Io"), fs |-> c.fs,
          log |-> c.log \o <<Event("spawn", TRUE, argv), Event("wait", FALSE, <<>>)>>,
          child |-> None]
    ELSE Waited(format, c, argv, o, from_utf8(o.stdout))

\* l.96-108: the command line, once data_source()? has returned
Sourced(format, bin, jar, c, src, o) ==
    IF src.kind # "Ok" THEN Stopped(src, c)
    ELSE Spawned(format, c,
                 <<bin, <<"-Djava.awt.headless=true">>, <<"-jar">>, jar,
                   <<"--config=">> \o c.res.val, format_arg(format), src.val>>,
                 o)

\* l.102-105: self.config()? and its path's to_str()
Configured(self, format, bin, jar, c, o) ==
    IF c.res.kind # "Ok" THEN Stopped(c.res, c)
    ELSE IF from_utf8(c.res.val).kind # "Ok" THEN Stopped(Err("NoConfig"), c)
    ELSE Sourced(format, bin, jar, c, data_source(self), o)

\* l.99: self.tmp_jar_cmd().ok_or(..)?
Located(self, d, format, bin, jar, o) ==
    IF ~jar.some
    THEN [res |-> Err("MissingTmpFolder"), fs |-> d, log |-> <<>>, child |-> None]
    ELSE Configured(self, format, bin, jar.val, config(self, d, o), o)

process(self, d, format, java_home, o) ==
    Located(self, d, format, java_bin(java_home), tmp_jar_cmd(self), o)

\* str::parse::<mime::Mime>: type "/" subtype
IsToken(a) == a \notin {"/", " ", "\n", Quote, ",", ":", ";", "{", "}", "[", "]"}
parse_mime(s) ==
    IF Len(s) = 3 /\ IsToken(s[1]) /\ s[2] = "/" /\ IsToken(s[3])
    THEN Some([type |-> s[1], subtype |-> s[3]]) ELSE None

\* the Format each accessor passes to process
FormatOf(op) ==
    CASE op = "text" -> "Text" [] op = "html" -> "Html"
      [] op = "mimetype" -> "Mime" [] OTHER -> "Metadata"

\* Client::mimetype on what process returned
MimeOrMissing(m) == IF m.some THEN Ok(m.val) ELSE Err("MissingContent")
ParsedMime(s) == MimeOrMissing(IF s.some THEN parse_mime(s.val) ELSE None)

\* what the accessor makes of the map process returned
Typed(op, res) ==
    IF res.kind # "Ok" THEN res
    ELSE IF op \in {"text", "html"} THEN text_result(res.val)
    ELSE IF op = "mimetype" THEN ParsedMime(get_str(res.val, <<"Content-Type">>))
    ELSE res

\* Client::text, Client::html, Client::mimetype, Client::metadata: "map" keeps
\* what process returned, "res" is what the accessor returns
Returned(op, p) ==
    [res |-> Typed(op, p.res), map |-> p.res, format |-> FormatOf(op), fs |-> p.fs,
     log |-> p.log, child |-> p.child]

Accessor(self, d, op, java_home, o) ==
    Returned(op, process(self, d, FormatOf(op), java_home, o))

(***************************************************************************)
(* remote.rs                                                               *)
(***************************************************************************)
\* RemoteClient::new
new(u, input) == [url |-> u, input |-> input, last_output |-> None]

\* variant: input() that keeps an input already set
input_keep_first(self, i) ==
    [self EXCEPT !.input = IF self.input.some THEN self.input ELSE Some(i),
                 !.last_output = None]

\* RemoteClient::input
input(self, i) == [self EXCEPT !.input = Some(i), !.last_output = None]

\* Response::text: the body decoded, an invalid byte replaced by U+FFFD
RECURSIVE text_lossy(_)
text_lossy(bytes) ==
    IF Len(bytes) = 0 THEN <<>>
    ELSE <<IF Head(bytes) = BadByte THEN "U+FFFD" ELSE Head(bytes)>>
         \o text_lossy(Tail(bytes))

\* a read of the input file or a GET of the input URL, and the bytes it gave
Fetched(ev, ok, arg, body) == [ev |-> ev, ok |-> ok, arg |-> arg, body |-> body]

\* RemoteClient::input_data; w.failAt says which step the file system or the
\* network refuses, w.data is what the file or the URL holds. An event is ok
\* when the step delivered the bytes (for a GET: sent, and the body read).
input_data(self, w) ==
    IF ~self.input.some THEN [res |-> Err("InputNotSet"), log |-> <<>>]
    ELSE IF self.input.val.tag = "FilePath"
    THEN (IF w.failAt = "read"
          THEN [res |-> Err("Io"),
                log |-> <<Fetched("read", FALSE, self.input.val.path, <<>>)>>]
          ELSE [res |-> Ok(w.data),
                log |-> <<Fetched("read", TRUE, self.input.val.path, w.data)>>])
    ELSE IF w.failAt \in {"get", "bytes"}
    THEN [res |-> Err("Network"),
          log |-> <<Fetched("GET", FALSE, as_str(self.input.val.url), <<>>)>>]
    ELSE [res |-> Ok(w.data),
          log |-> <<Fetched("GET", TRUE, as_str(self.input.val.url), w.data)>>]

PutEvent(ok, target, body) ==
    [ev |-> "PUT", ok |-> ok, arg |-> as_str(target), body |-> body,
     accept |-> <<"application/json">>]

\* RemoteClient::request: the URL is joined first, the body is resolved while
\* the request is built, then the request is sent and the response parsed.
\* resp is the response body once it has been read.

\* variant: the PUT sent before the input is resolved
Resolved_put_first(target, d, w) ==
    IF d.res.kind # "Ok"
    THEN [res |-> d.res, log |-> <<PutEvent(TRUE, target, <<>>)>> \o d.log,
          resp |-> None]
    ELSE IF w.failAt \in {"put", "text"}
    THEN [res |-> Err("Network"),
          log |-> <<PutEvent(w.failAt # "put", target, d.res.val)>> \o d.log,
          resp |-> None]
    ELSE [res |-> from_str(text_lossy(w.body)),
          log |-> <<PutEvent(TRUE, target, d.res.val)>> \o d.log,
          resp |-> Some(w.body)]

\* l.94-103 once the body is there: send().await?, text().await?, from_str
Resolved(target, d, w) ==
    IF d.res.kind # "Ok" THEN [res |-> d.res, log |-> d.log, resp |-> None]
    ELSE IF w.failAt \in {"put", "text"}
    THEN [res |-> Err("Network"),
          log |-> Append(d.log, PutEvent(w.failAt # "put", target, d.res.val)),
          resp |-> None]
    ELSE [res |-> from_str(text_lossy(w.body)),
          log |-> Append(d.log, PutEvent(TRUE, target, d.res.val)),
          resp |-> Some(w.body)]

\* l.95-97: self.url.join(path)?, then self.input_data().await?
Joined(self, target, w) ==
    IF target.kind # "Ok" THEN [res |-> target, log |-> <<>>, resp |-> None]
    ELSE Resolved(target.val, input_data(self, w), w)

request(self, path, w) == Joined(self, UrlJoin(self.url, path), w)

\* the request path of each accessor
PathOf(op) ==
    CASE op = "html" -> <<"tika", "/", "html">>
      [] op = "text" -> <<"tika", "/", "text">>
      [] OTHER -> <<"meta">>

\* variant: the two field names exchanged
FieldOf_swapped(op) ==
    IF op = "mimetype" THEN <<"X-TIKA:content">> ELSE <<"Content-Type">>

\* the field each scalar accessor extracts
FieldOf(op) ==
    IF op = "mimetype" THEN <<"Content-Type">> ELSE <<"X-TIKA:content">>

\* RemoteClient::html, text, mimetype, metadata: "map" keeps what request
\* returned, "res" is what the accessor returns
RemoteTyped(op, res) ==
    IF res.kind # "Ok" \/ op = "metadata" THEN res
    ELSE StrOrMissing(get_str(res.val, FieldOf(op)))

RemoteReturned(op, r) ==
    [res |-> RemoteTyped(op, r.res), map |-> r.res, log |-> r.log, resp |-> r.resp]

RemoteAccessor(self, op, w) == RemoteReturned(op, request(self, PathOf(op), w))

(***************************************************************************)
(* What the world supplies: inputs, base URLs, and what the engine or the  *)
(* service writes back. A JSON document is kept as the list of its members *)
(* in the order written, and Render turns it into the text that is read.   *)
(***************************************************************************)
CT == <<"Content-Type">>
XC == <<"X-TIKA:content">>

DObject(members, pretty) == [type |-> "Object", members |-> members, pretty |-> pretty]

RECURSIVE Render(_)
RECURSIVE RenderItems(_)
RECURSIVE RenderMembers(_, _)
Render(v) ==
    CASE v.type = "String" -> <<Quote>> \o v.s \o <<Quote>>
      [] v.type = "Number" -> v.n
      [] v.type = "Bool" -> <<IF v.b THEN "true" ELSE "false">>
      [] v.type = "Null" -> <<"null">>
      [] v.type = "Array" -> <<"[">> \o RenderItems(v.items) \o <<"]">>
      [] OTHER -> <<"{">> \o RenderMembers(v.members, v.pretty)
                  \o (IF v.pretty THEN <<"}", "\n">> ELSE <<"}">>)
RenderItems(items) ==
    IF Len(items) = 0 THEN <<>>
    ELSE Render(Head(items))
         \o (IF Len(items) > 1 THEN <<",">> ELSE <<>>) \o RenderItems(Tail(items))
RenderMembers(ms, pretty) ==
    IF Len(ms) = 0 THEN <<>>
    ELSE (IF pretty THEN <<"\n", " ">> ELSE <<>>)
         \o <<Quote>> \o Head(ms)[1] \o <<Quote, ":">>
         \o (IF pretty THEN <<" ">> ELSE <<>>) \o Render(Head(ms)[2])
         \o (IF Len(ms) > 1 THEN <<",">> ELSE IF pretty THEN <<"\n">> ELSE <<>>)
         \o RenderMembers(Tail(ms), pretty)

\* the Value a document stands for: of a repeated key the last member counts
RECURSIVE ValueOf(_)
RECURSIVE ItemsOf(_)
RECURSIVE MapOf(_)
ValueOf(v) ==
    CASE v.type = "Array" -> VArray(ItemsOf(v.items))
      [] v.type = "Object" -> VObject(MapOf(v.members))
      [] OTHER -> v
ItemsOf(items) ==
    IF Len(items) = 0 THEN <<>> ELSE <<ValueOf(Head(items))>> \o ItemsOf(Tail(items))
MapOf(ms) ==
    IF Len(ms) = 0 THEN EmptyMap
    ELSE Insert(MapOf(SubSeq(ms, 1, Len(ms) - 1)), ms[Len(ms)][1],
                ValueOf(ms[Len(ms)][2]))

Pdf == <<"application", "/", "pdf">>
Plain == <<"text", "/", "plain">>

JsonDocs ==
    { DObject(<<>>, FALSE),
      DObject(<< <<CT, VString(Pdf)>>, <<<<"X-TIKA:other">>, VString(<<"x">>)>> >>, FALSE),
      DObject(<< <<XC, VString(<<"hello", " ", "world">>)>>, <<CT, VString(Plain)>> >>, TRUE),
      DObject(<< <<CT, VArray(<<VString(Plain), VString(Pdf)>>)>>,
                 <<XC, VNumber(<<"1", "2">>)>> >>, FALSE),
      DObject(<< <<CT, VString(Plain)>>, <<CT, VString(<<"octet">>)>> >>, FALSE),
      DObject(<< <<<<"result">>, VString(<<"x">>)>>,
                 <<<<"nested">>, DObject(<< <<XC, VString(<<"inner">>)>> >>, FALSE)>>,
                 <<<<"n">>, VNull>>, <<<<"b">>, VBool(TRUE)>> >>, TRUE) }

\* texts that are not one JSON object
NotObjects ==
    { <<>>,
      <<"hello", " ", "world">>,
      <<"[", "1", "]">>,
      <<Quote, "a", Quote>>,
      <<"null">>,
      <<"{", Quote, "a", Quote, ":">>,
      <<"{", Quote, "a", Quote, "1", "}">>,
      <<"{", Quote, "a", Quote, ":", "1", ",", "}">>,
      <<"{", "}", "x">> }

\* bytes that are not text at all
NotUtf8 == { <<"hello", BadByte>> }

Bodies == {Render(d) : d \in JsonDocs} \cup NotObjects \cup NotUtf8

\* the document a text renders, if any
IsDoc(text) == \E d \in JsonDocs : Render(d) = text
DocOf(text) == CHOOSE d \in JsonDocs : Render(d) = text

Inputs ==
    { FilePath(<<"doc.pdf">>),
      FilePath(<<"doc", BadByte, ".pdf">>),
      UrlInput(MkUrl("https://example.com", <<"a.pdf">>, FALSE)) }

\* the inputs the scratch-directory specification builds Clients with
FewInputs == {i \in Inputs : i.tag = "FilePath"}

BaseUrls ==
    { MkUrl("http://tika:9998", <<"">>, FALSE),
      MkUrl("http://host", <<"api", "">>, FALSE),
      MkUrl("http://host", <<"v1", "tika">>, FALSE),
      MkUrl("mailto:", <<"ops@example.com">>, TRUE) }

JavaHomes == {None, Some(<<"/opt/jdk">>)}
TmpRoots == {<<"/tmp">>, <<"/tmp/", BadByte>>}
DefaultEnv == [java_home |-> None, tmp_root |-> <<"/tmp">>]
DefaultUrl == MkUrl("http://tika:9998", <<"">>, FALSE)

Clients == {"c1", "c2"}

\* what can go wrong while a Client is built
BuildOutcomes == {[failAt |-> f] : f \in {"none", "mkdir", "create", "write"}}

\* what can go wrong in an extraction call, or what the engine does
RunOutcome(f, k, exit, stdout) ==
    [failAt |-> f, k |-> k, exit |-> exit, stdout |-> stdout]
PartialLens == {k \in 0..MaxPartial : k < Len(TIKA_OCR_CONFIG) /\ k < Len(TIKA_NO_OCR_CONFIG)}
Failures ==
    {RunOutcome(f, 0, "failure", <<>>) : f \in {"create", "spawn", "wait"}}
    \cup {RunOutcome("write", k, "failure", <<>>) : k \in PartialLens}
RunOutcomes ==
    Failures \cup {RunOutcome("none", 0, e, b) : e \in {"success", "failure"}, b \in Bodies}
\* the runs the scratch-directory specification follows
FewRunOutcomes ==
    Failures \cup {RunOutcome("none", 0, "success", <<"hello", " ", "world">>),
                   RunOutcome("none", 0, "failure", <<>>)}

\* what can go wrong in a remote call, or what the service answers
Payloads == {<<"%PDF">>, <<"plain", BadByte>>}
Worlds ==
    {[failAt |-> f, data |-> <<>>, body |-> <<>>] :
        f \in {"read", "get", "bytes"}}
    \cup {[failAt |-> f, data |-> d, body |-> <<>>] :
        f \in {"put", "text"}, d \in Payloads}
    \cup {[failAt |-> "none", data |-> d, body |-> b] : d \in Payloads, b \in Bodies}

(***************************************************************************)
(* State machine                                                           *)
(***************************************************************************)
NoClient == [input |-> None, ocr |-> FALSE, jar_path |-> None]
NoCall == [client |-> "", op |-> "none"]
NoRemoteCall == [op |-> "none"]

LocalOps == {"text", "html", "mimetype", "metadata"}

Init ==
    /\ env \in [java_home : JavaHomes, tmp_root : TmpRoots]
    /\ life = [c \in Clients |-> "none"]
    /\ client = [c \in Clients |-> NoClient]
    /\ fs = [c \in Clients |-> NoDir]
    /\ called = [c \in Clients |-> FALSE]
    /\ l_call = NoCall
    /\ \E u \in BaseUrls, i \in {None} \cup {Some(x) : x \in Inputs} :
          LET self == new(u, i) IN
          /\ url = self.url
          /\ r_input = self.input
          /\ last_output = self.last_output
    /\ r_call = NoRemoteCall

\* Client::try_new(i, ocr) in slot c
TryNew(c, i, ocr, o) ==
    /\ life[c] = "none"
    /\ \E r \in {try_new(i, ocr, fs[c], env.tmp_root, c, o)} :
       /\ life' = [life EXCEPT ![c] = IF r.res.kind = "Ok" THEN "live" ELSE "failed"]
       /\ client' = [client EXCEPT ![c] = IF r.res.kind = "Ok" THEN r.res.val ELSE NoClient]
       /\ fs' = [fs EXCEPT ![c] = r.fs]
    /\ UNCHANGED <<env, called, l_call, remoteVars>>

\* one of text(), html(), mimetype(), metadata() on the Client in slot c
Extract(c, op, o) ==
    /\ life[c] = "live"
    /\ \E r \in {Accessor(client[c], fs[c], op, env.java_home, o)} :
       /\ fs' = [fs EXCEPT ![c] = r.fs]
       /\ l_call' = [client |-> c, op |-> op, format |-> r.format, log |-> r.log,
                     child |-> r.child, map |-> r.map, res |-> r.res]
    /\ called' = [called EXCEPT ![c] = TRUE]
    /\ UNCHANGED <<env, life, client, remoteVars>>

\* the Client in slot c goes out of scope: its TempDir is dropped
Drop(c) ==
    /\ life[c] = "live"
    /\ life' = [life EXCEPT ![c] = "dropped"]
    /\ client' = [client EXCEPT ![c] = NoClient]
    /\ fs' = [fs EXCEPT ![c] = IF client[c].jar_path.some THEN RemoveDir(fs[c]) ELSE fs[c]]
    /\ UNCHANGED <<env, called, l_call, remoteVars>>

RemoteSelf == [url |-> url, input |-> r_input, last_output |-> last_output]

\* RemoteClient::input(i)
SetInput(i) ==
    /\ \E self \in {input(RemoteSelf, i)} :
       /\ url' = self.url
       /\ r_input' = self.input
       /\ last_output' = self.last_output
    /\ r_call' = [op |-> "input", self |-> RemoteSelf, arg |-> i]
    /\ UNCHANGED localVars

\* one of html(), text(), mimetype(), metadata() on the RemoteClient
RemoteCall(op, w) ==
    /\ \E r \in {RemoteAccessor(RemoteSelf, op, w)} :
       r_call' = [op |-> op, self |-> RemoteSelf, log |-> r.log, resp |-> r.resp,
                  map |-> r.map, res |-> r.res]
    /\ UNCHANGED <<url, r_input, last_output, localVars>>

\* one Local Backend instance, every engine output
NextLocal ==
    \/ \E i \in Inputs, ocr \in BOOLEAN, o \in BuildOutcomes : TryNew("c1", i, ocr, o)
    \/ \E op \in LocalOps, o \in RunOutcomes : Extract("c1", op, o)
    \/ Drop("c1")

\* two Local Backend instances side by side
NextScratch ==
    \/ \E c \in Clients, i \in FewInputs, ocr \in BOOLEAN, o \in BuildOutcomes :
          TryNew(c, i, ocr, o)
    \/ \E c \in Clients, op \in LocalOps, o \in FewRunOutcomes : Extract(c, op, o)
    \/ \E c \in Clients : Drop(c)

NextRemote ==
    \/ \E i \in Inputs : SetInput(i)
    \/ \E op \in LocalOps, w \in Worlds : RemoteCall(op, w)

Next == NextLocal \/ NextScratch \/ NextRemote

Spec == Init /\ [][Next]_vars

\* the Local Backend alone, beside a RemoteClient that is never called
InitLocal == Init /\ url = DefaultUrl /\ r_input = None
SpecLocal == InitLocal /\ [][NextLocal]_vars
InitScratch == InitLocal /\ env.java_home = None
SpecScratch == InitScratch /\ [][NextScratch]_vars

\* the Remote Backend alone, no Client ever built
InitRemote == Init /\ env = DefaultEnv
SpecRemote == InitRemote /\ [][NextRemote]_vars

(***************************************************************************)
(* Properties                                                              *)
(***************************************************************************)
LocalCalled == l_call.op \in LocalOps
RemoteCalled == r_call.op \in LocalOps
Failed(log, ev) == \E i \in 1..Len(log) : log[i].ev = ev /\ ~log[i].ok
Count(log, ev) == Cardinality({i \in 1..Len(log) : log[i].ev = ev})
Tail2(s) == SubSeq(s, Len(s) - 1, Len(s))
Tail3(s) == SubSeq(s, Len(s) - 2, Len(s))

\* C1: an accessor called on a RemoteClient with no input fails with "Input
\* not set" and has touched neither the file system nor the network,
\* whatever the base URL.
C1_NoInputIsInputNotSet ==
    (RemoteCalled /\ ~r_call.self.input.some)
        => (r_call.res = Err("InputNotSet") /\ r_call.log = <<>>)

\* C2: every failure inside a Local Backend extraction call comes back as an
\* error value: the call never unwinds, a refused spawn is a process error
\* and a refused write of the configuration file is an I/O error.
C2_FailuresAreReturned ==
    LocalCalled =>
        /\ l_call.res.kind \in {"Ok", "Err"}
        /\ Failed(l_call.log, "spawn") => l_call.res = Err("Process")
        /\ Failed(l_call.log, "write_config") => l_call.res = Err("Io")

\* C3: a Local Backend accessor returns a success value only if the engine
\* subprocess it spawned exited successfully.
C3_SuccessNeedsCleanExit ==
    (LocalCalled /\ l_call.res.kind = "Ok")
        => (l_call.child.some /\ l_call.child.val.exit = "success")

\* C4: the configuration file of a live Local Backend, if present, holds
\* exactly the template its ocr flag selects, under the one fixed name; a
\* call that reached the spawn wrote it in full before; and two instances
\* whose ocr flags differ hold different configuration files.
TemplateOf(ocr) == IF ocr THEN TIKA_OCR_CONFIG ELSE TIKA_NO_OCR_CONFIG
HasConfig(c) == life[c] = "live" /\ CONFIG_NAME \in DOMAIN fs[c].files
C4_ConfigMatchesOcr ==
    /\ \A c \in Clients :
          /\ HasConfig(c) => fs[c].files[CONFIG_NAME] = TemplateOf(client[c].ocr)
          /\ life[c] = "live" => DOMAIN fs[c].files \subseteq {TIKA_NAME, CONFIG_NAME}
    /\ LocalCalled =>
          \A i \in 1..Len(l_call.log) :
             l_call.log[i].ev = "spawn" =>
                \E j \in 1..(i - 1) : l_call.log[j] = Event("write_config", TRUE, <<>>)
    /\ \A c, d \in Clients :
          (HasConfig(c) /\ HasConfig(d) /\ client[c].ocr # client[d].ocr)
             => fs[c].files[CONFIG_NAME] # fs[d].files[CONFIG_NAME]

\* C5 as stated: from try_new's return to the drop, the scratch directory
\* holds exactly two files, the engine artifact (written once) and one
\* configuration file.
C5_ExactlyTwoFiles ==
    \A c \in Clients :
       life[c] = "live" =>
          /\ DOMAIN fs[c].files = {TIKA_NAME, CONFIG_NAME}
          /\ fs[c].files[TIKA_NAME] = TIKA_JAR
          /\ fs[c].jar_writes = 1

\* C5, amended: from try_new's return to the drop, the scratch directory
\* holds the engine artifact, written once and never rewritten by an
\* extraction call, and at most one configuration file, which is missing
\* until an extraction call has been made.
C5_ArtifactAndAtMostOneConfig ==
    \A c \in Clients :
       life[c] = "live" =>
          /\ TIKA_NAME \in DOMAIN fs[c].files
          /\ fs[c].files[TIKA_NAME] = TIKA_JAR
          /\ fs[c].jar_writes = 1
          /\ DOMAIN fs[c].files \subseteq {TIKA_NAME, CONFIG_NAME}
          /\ ~called[c] => DOMAIN fs[c].files = {TIKA_NAME}
          /\ (l_call.client = c /\ l_call.res.kind = "Ok")
                => DOMAIN fs[c].files = {TIKA_NAME, CONFIG_NAME}
C5_Witness ==
    \E c \in Clients :
       /\ life[c] = "live" /\ called[c]
       /\ l_call.client = c /\ l_call.res.kind = "Ok"
       /\ Cardinality(DOMAIN fs[c].files) = 2

\* C6: the scratch directory exists as long as the instance lives, whatever
\* its extraction calls return, is removed exactly once when the instance
\* is dropped, and is not left behind by a construction that fails.
C6_ScratchLifetime ==
    \A c \in Clients :
       /\ life[c] = "none" => (~fs[c].exists /\ fs[c].removed = 0)
       /\ life[c] = "live" =>
             (fs[c].exists /\ fs[c].removed = 0 /\ client[c].jar_path.some)
       /\ life[c] = "dropped" => (~fs[c].exists /\ fs[c].removed = 1)
       /\ life[c] = "failed" => (~fs[c].exists /\ fs[c].removed <= 1)
C6_Witness ==
    \E c, d \in Clients :
       /\ life[c] = "dropped" /\ l_call.client = c /\ l_call.res.kind # "Ok"
       /\ fs[c].removed = 1
       /\ life[d] = "failed" /\ fs[d].removed = 1

\* C7: after input(i) the RemoteClient's input is i, its last_output is
\* empty and its base URL is what it was.
C7_InputReplaces ==
    r_call.op = "input" =>
        /\ r_input = Some(r_call.arg)
        /\ last_output = None
        /\ url = r_call.self.url
C7_Witness ==
    /\ r_call.op = "input"
    /\ r_call.self.input.some
    /\ r_call.self.input.val # r_call.arg
    /\ r_input = Some(r_call.arg)

\* C8: process_output follows the rule table: Html and Text wrap the raw
\* output, unchanged, under "result"; Mime keeps of the parsed object only
\* Content-Type, with the value the raw JSON gave it; Metadata is the parsed
\* object; and for Mime and Metadata an output that is not a JSON object is
\* an error.
C8_NormalizerRuleTable ==
    (LocalCalled /\ l_call.child.some
        /\ l_call.child.val.stdout \in Bodies \ NotUtf8) =>
    LET raw == l_call.child.val.stdout
        got == l_call.map
        want == MapOf(DocOf(raw).members)
    IN
    /\ l_call.format \in {"Html", "Text"} =>
          /\ got.kind = "Ok"
          /\ DOMAIN got.val = {<<"result">>}
          /\ got.val[<<"result">>] = VString(raw)
    /\ (l_call.format = "Mime" /\ IsDoc(raw)) =>
          /\ got.kind = "Ok"
          /\ DOMAIN got.val = DOMAIN want \cap {CT}
          /\ \A k \in DOMAIN got.val : got.val[k] = want[k]
    /\ (l_call.format = "Metadata" /\ IsDoc(raw)) =>
          /\ got.kind = "Ok"
          /\ DOMAIN got.val = DOMAIN want
          /\ \A k \in DOMAIN want : got.val[k] = want[k]
    /\ (l_call.format \in {"Mime", "Metadata"} /\ raw \in NotObjects) =>
          got.kind = "Err"
C8_Witness ==
    /\ LocalCalled /\ l_call.child.some /\ l_call.format = "Mime"
    /\ IsDoc(l_call.child.val.stdout)
    /\ Cardinality(DOMAIN MapOf(DocOf(l_call.child.val.stdout).members)) = 2
    /\ l_call.map.kind = "Ok"
    /\ DOMAIN l_call.map.val = {CT}

\* C9: when the service answers with a JSON object, html and text (sent to
\* tika/html and tika/text) return the string under X-TIKA:content and
\* mimetype (sent to meta) the string under Content-Type, whatever else the
\* object holds; each fails with "Missing or empty content" exactly when its
\* field is absent or not a string; metadata (sent to meta) returns the
\* whole object.
Designated(op) == IF op \in {"html", "text"} THEN XC ELSE CT
C9_ScalarAccessors ==
    (RemoteCalled /\ r_call.resp.some /\ IsDoc(r_call.resp.val)) =>
    LET want == MapOf(DocOf(r_call.resp.val).members)
        f == Designated(r_call.op)
        sent == r_call.log[Len(r_call.log)]
        isStr == f \in DOMAIN want /\ want[f].type = "String"
    IN
    /\ sent.ev = "PUT"
    /\ r_call.op = "html" => Tail3(sent.arg) = <<"tika", "/", "html">>
    /\ r_call.op = "text" => Tail3(sent.arg) = <<"tika", "/", "text">>
    /\ r_call.op \in {"mimetype", "metadata"} => Tail2(sent.arg) = <<"/", "meta">>
    /\ r_call.op = "metadata" => r_call.res = Ok(want)
    /\ (r_call.op # "metadata" /\ isStr) => r_call.res = Ok(want[f].s)
    /\ (r_call.op # "metadata" /\ ~isStr) => r_call.res = Err("MissingContent")
C9_Witness ==
    /\ RemoteCalled /\ r_call.op = "mimetype" /\ r_call.resp.some
    /\ IsDoc(r_call.resp.val)
    /\ Cardinality(DOMAIN MapOf(DocOf(r_call.resp.val).members)) = 2
    /\ r_call.res = Ok(Pdf)

\* C10: in a Remote Backend accessor call with an input set, the input is
\* resolved (file read, or GET) before the PUT is sent, a failed resolution
\* is the call's error and no PUT is sent, and the call sends at most one
\* GET and at most one PUT.
Resolves(e) == e.ev \in {"read", "GET"}
C10_ResolveThenPut ==
    (RemoteCalled /\ r_call.self.input.some) =>
    LET log == r_call.log IN
    /\ Count(log, "GET") <= 1
    /\ Count(log, "PUT") <= 1
    /\ Count(log, "read") + Count(log, "GET") <= 1
    /\ \A i \in 1..Len(log) :
          log[i].ev = "PUT" =>
             \E j \in 1..(i - 1) :
                Resolves(log[j]) /\ log[j].ok /\ log[i].body = log[j].body
    /\ Failed(log, "read") => (Count(log, "PUT") = 0 /\ r_call.res = Err("Io"))
    /\ Failed(log, "GET") => (Count(log, "PUT") = 0 /\ r_call.res = Err("Network"))
C10_Witness ==
    /\ RemoteCalled /\ r_call.self.input.some
    /\ r_call.self.input.val.tag = "Url"
    /\ Len(r_call.log) = 2
    /\ r_call.log[1].ev = "GET" /\ r_call.log[1].ok
    /\ r_call.log[1].arg = as_str(r_call.self.input.val.url)
    /\ r_call.log[2].ev = "PUT" /\ r_call.log[2].body \in Payloads

====
